---- MODULE Spec2Model ----
(***************************************************************************)
(* Product service (FastAPI): registration, login with JWT issuance, the   *)
(* bearer-token dependency chain verify_token -> get_current_user ->       *)
(* require_admin in front of POST /products, the public product reads, and *)
(* the database-readiness poll started by the lifespan hook.               *)
(*                                                                         *)
(* Time is counted in minutes (the unit of ACCESS_TOKEN_EXPIRE_MINUTES);   *)
(* the startup poll counts its sleep in seconds (asyncio.sleep(3)).        *)
(***************************************************************************)
EXTENDS Integers, Sequences, FiniteSets, TLC

VARIABLES users, nextUserId, products, now, reqs, initPc, attempt, slept

vars == <<users, nextUserId, products, now, reqs, initPc, attempt, slept>>

----------------------------------------------------------------------------
(* Bounds of the model *)

\* Largest primary key the users table hands out.
MaxUserId == 3
\* Number of product rows the products table may hold.
MaxProducts == 1
\* Last instant of the clock.
MaxTime == 31

\* Concurrent request tasks (one task per inbound request).
Procs == {"t1", "t2"}

----------------------------------------------------------------------------
(* Program constants *)

SECRET_KEY == "your-secret-key-change-in-production"
ACCESS_TOKEN_EXPIRE_MINUTES == 30
retries == 5
SleepSeconds == 3

ADMIN == "admin"
USER == "user"

HTTP_200_OK == 200
HTTP_401_UNAUTHORIZED == 401
HTTP_403_FORBIDDEN == 403
\* Starlette's ServerErrorMiddleware answers an exception that no handler
\* caught (ValueError, IntegrityError, OperationalError) with status 500.
HTTP_500_INTERNAL_SERVER_ERROR == 500

\* payload.get(...) on an absent claim.
None == "None"

----------------------------------------------------------------------------
(* str(int) and int(str) on decimal numerals; a string is a sequence of    *)
(* one-character strings.                                                  *)

Digits == <<"0", "1", "2", "3", "4", "5", "6", "7", "8", "9">>

DigitChars == {Digits[i] : i \in 1..10}

DigitValue(c) == (CHOOSE i \in 1..10 : Digits[i] = c) - 1

RECURSIVE IntToStr(_)
IntToStr(n) ==
    IF n < 10 THEN <<Digits[n + 1]>>
    ELSE Append(IntToStr(n \div 10), Digits[(n % 10) + 1])

\* int(s) raises ValueError unless s is a non-empty run of digits.
IsNumeral(s) == Len(s) > 0 /\ \A i \in 1..Len(s) : s[i] \in DigitChars

RECURSIVE StrToInt(_)
StrToInt(s) ==
    IF Len(s) = 1 THEN DigitValue(s[1])
    ELSE 10 * StrToInt(SubSeq(s, 1, Len(s) - 1)) + DigitValue(s[Len(s)])

----------------------------------------------------------------------------
(* Credential hasher *)

get_password_hash(password) == <<"bcrypt", password>>

verify_password(plain_password, hashed_password) ==
    hashed_password = get_password_hash(plain_password)

----------------------------------------------------------------------------
(* Token issuer and verifier.  A token is the signed payload: the key it   *)
(* was signed with and the claims.                                         *)

\* expires_delta = 0 stands for the default None: "if expires_delta:" is
\* false for both.
create_access_token(data, expires_delta, t) ==
    LET sub == IntToStr(data.sub)
        expire == IF expires_delta # 0 THEN t + expires_delta
                  ELSE t + ACCESS_TOKEN_EXPIRE_MINUTES
    IN [key |-> SECRET_KEY,
        payload |-> [sub |-> sub, role |-> data.role, exp |-> expire]]

\* jose.jwt.decode raises JWTError on a signature made with another key and
\* (ExpiredSignatureError, from _validate_exp) only when exp < now.
Expired(exp, t) == exp < t

jwt_decode(token, t) ==
    IF token.key # SECRET_KEY THEN [raised |-> TRUE]
    ELSE IF "exp" \in DOMAIN token.payload /\ Expired(token.payload.exp, t)
         THEN [raised |-> TRUE]
         ELSE [raised |-> FALSE]

NoTokenData == [user_id |-> 0, role |-> None]

\* verify_token: the HTTPException it raises, or the token data it returns.
verify_token(token, t) ==
    IF jwt_decode(token, t).raised
    THEN [ok |-> FALSE, status |-> HTTP_401_UNAUTHORIZED,
          detail |-> "Invalid token", data |-> NoTokenData]
    ELSE IF "sub" \notin DOMAIN token.payload
    THEN [ok |-> FALSE, status |-> HTTP_401_UNAUTHORIZED,
          detail |-> "Invalid token", data |-> NoTokenData]
    ELSE IF ~IsNumeral(token.payload.sub)
    THEN [ok |-> FALSE, status |-> HTTP_401_UNAUTHORIZED,
          detail |-> "Invalid token subject", data |-> NoTokenData]
    ELSE [ok |-> TRUE, status |-> 0, detail |-> "",
          data |-> [user_id |-> StrToInt(token.payload.sub),
                    role |-> IF "role" \in DOMAIN token.payload
                             THEN token.payload.role ELSE None]]

----------------------------------------------------------------------------
(* The relational store *)

NoUser == [id |-> 0, username |-> "", email |-> "",
           hashed_password |-> <<>>, role |-> ""]

\* A row the store held before this process started.
SeedAdmin == [id |-> 1, username |-> "root", email |-> "root@x",
              hashed_password |-> get_password_hash("secret123"),
              role |-> ADMIN]

\* Column(String, unique=True) on username and on email: the store refuses
\* the INSERT (IntegrityError) when either value is already present.
UniqueViolationMut(table, row) ==
    \E u \in table : u.email = row.email

UniqueViolation(table, row) ==
    \E u \in table : u.username = row.username \/ u.email = row.email

\* query(User).filter(User.username == name).first()
UserByName(table, name) ==
    IF \E u \in table : u.username = name
    THEN CHOOSE u \in table : u.username = name
    ELSE NoUser

\* query(User).filter(User.id == user_id).first()
UserById(table, user_id) ==
    IF \E u \in table : u.id = user_id
    THEN CHOOSE u \in table : u.id = user_id
    ELSE NoUser

\* The row register builds: the role is the literal UserRole.USER.
NewUserMut(user, id) ==
    [id |-> id, username |-> user.username, email |-> user.email,
     hashed_password |-> get_password_hash(user.password), role |-> ADMIN]

NewUser(user, id) ==
    [id |-> id, username |-> user.username, email |-> user.email,
     hashed_password |-> get_password_hash(user.password), role |-> USER]

----------------------------------------------------------------------------
(* Request inputs *)

\* schemas.UserCreate bodies.
UserCreateInputs ==
    { [username |-> "alice", email |-> "alice@x", password |-> "secret123"],
      [username |-> "bob",   email |-> "bob@x",   password |-> "secret123"],
      [username |-> "bob",   email |-> "alice@x", password |-> "secret123"] }

\* schemas.UserLogin bodies.
UserLoginInputs ==
    { [username |-> "alice", password |-> "secret123"],
      [username |-> "alice", password |-> "wrong"],
      [username |-> "root",  password |-> "secret123"] }

FarFuture == MaxTime + ACCESS_TOKEN_EXPIRE_MINUTES

\* Bearer strings that no login of this process produced.  SECRET_KEY is a
\* literal of the source, so a payload signed with it may come from anywhere.
CraftedTokens ==
    { [key |-> "other-key",
       payload |-> [sub |-> <<"1">>, role |-> ADMIN, exp |-> FarFuture]],
      [key |-> SECRET_KEY,
       payload |-> [role |-> ADMIN, exp |-> FarFuture]],
      [key |-> SECRET_KEY,
       payload |-> [sub |-> <<"x">>, role |-> ADMIN, exp |-> FarFuture]],
      [key |-> SECRET_KEY,
       payload |-> [sub |-> <<"9">>, role |-> ADMIN, exp |-> FarFuture]] }

\* Tokens a client holds: the access_token of a login response.
HeldTokens == { reqs[q].token : q \in {x \in Procs : reqs[x].op = "login"
                                                  /\ reqs[x].status = HTTP_200_OK} }

\* The instants the clock visits: the start, and the minutes from the expiry
\* of a token issued at the start onwards.
Instants == {0} \cup (ACCESS_TOKEN_EXPIRE_MINUTES..MaxTime)

----------------------------------------------------------------------------
(* Request tasks *)

Idle == [op |-> "idle", pc |-> "idle", status |-> 0, detail |-> ""]

\* The response of a task that ended.
Done(r, status, detail) == [r EXCEPT !.pc = "done", !.status = status, !.detail = detail]

InFlight(op) == Cardinality({q \in Procs : reqs[q].op = op /\ reqs[q].pc # "done"})

Init ==
    /\ users \in {{}, {SeedAdmin}}
    /\ nextUserId = Cardinality(users) + 1
    /\ products = {}
    /\ now = 0
    /\ reqs = [p \in Procs |-> Idle]
    /\ initPc = "try"
    /\ attempt = 0
    /\ slept = 0

----------------------------------------------------------------------------
(* lifespan / init_db *)

\* One pass of "try: create_all(...)": success breaks out of the loop,
\* OperationalError goes on to the sleep.
InitDbAttempt ==
    /\ initPc = "try"
    /\ \E ok \in BOOLEAN :
         initPc' = IF ok THEN "connected" ELSE "sleep"
    /\ UNCHANGED <<users, nextUserId, products, now, reqs, attempt, slept>>

\* "await asyncio.sleep(3)", then the next value of range(retries) or the
\* for-else branch.
InitDbSleepMut ==
    /\ initPc = "sleep"
    /\ slept' = slept + SleepSeconds
    /\ attempt' = attempt + 1
    /\ initPc' = IF attempt + 1 <= retries THEN "try" ELSE "unreachable"
    /\ UNCHANGED <<users, nextUserId, products, now, reqs>>

InitDbSleep ==
    /\ initPc = "sleep"
    /\ slept' = slept + SleepSeconds
    /\ attempt' = attempt + 1
    /\ initPc' = IF attempt + 1 < retries THEN "try" ELSE "unreachable"
    /\ UNCHANGED <<users, nextUserId, products, now, reqs>>

----------------------------------------------------------------------------
(* POST /register *)

BeginRegister(p, user) ==
    /\ reqs[p].op = "idle"
    /\ nextUserId + InFlight("register") <= MaxUserId
    /\ reqs' = [reqs EXCEPT ![p] =
                  [op |-> "register", pc |-> "check", status |-> 0,
                   detail |-> "", user |-> user, existing |-> FALSE]]
    /\ UNCHANGED <<users, nextUserId, products, now, initPc, attempt, slept>>

\* The existence query; "raise ValueError" is caught by nothing.
RegisterCheck(p) ==
    /\ reqs[p].op = "register" /\ reqs[p].pc = "check"
    /\ \E fault \in BOOLEAN :
         LET r == reqs[p]
             existing_user == UserByName(users, r.user.username)
         IN reqs' = [reqs EXCEPT ![p] =
              IF fault
              THEN Done(r, HTTP_500_INTERNAL_SERVER_ERROR, "OperationalError")
              ELSE IF existing_user # NoUser
              THEN Done([r EXCEPT !.existing = TRUE],
                        HTTP_500_INTERNAL_SERVER_ERROR, "ValueError")
              ELSE [r EXCEPT !.pc = "insert"]]
    /\ UNCHANGED <<users, nextUserId, products, now, initPc, attempt, slept>>

\* db.add, db.commit, db.refresh.
RegisterCommit(p) ==
    /\ reqs[p].op = "register" /\ reqs[p].pc = "insert"
    /\ LET r == reqs[p]
           db_user == NewUser(r.user, nextUserId)
       IN IF UniqueViolation(users, db_user)
          THEN /\ reqs' = [reqs EXCEPT ![p] =
                     Done(r, HTTP_500_INTERNAL_SERVER_ERROR, "IntegrityError")]
               /\ UNCHANGED <<users, nextUserId>>
          ELSE /\ users' = users \cup {db_user}
               /\ nextUserId' = nextUserId + 1
               /\ reqs' = [reqs EXCEPT ![p] = Done(r, HTTP_200_OK, "")]
    /\ UNCHANGED <<products, now, initPc, attempt, slept>>

----------------------------------------------------------------------------
(* POST /login *)

login(p, user_login) ==
    /\ reqs[p].op = "idle"
    /\ \E fault \in BOOLEAN :
         LET user == UserByName(users, user_login.username)
             r == [op |-> "login", pc |-> "done", status |-> 0, detail |-> "",
                   token |-> [key |-> "", payload |-> [exp |-> 0]]]
         IN reqs' = [reqs EXCEPT ![p] =
              IF fault
              THEN Done(r, HTTP_500_INTERNAL_SERVER_ERROR, "OperationalError")
              ELSE IF user = NoUser
                      \/ ~verify_password(user_login.password, user.hashed_password)
              THEN Done(r, HTTP_500_INTERNAL_SERVER_ERROR, "ValueError")
              ELSE Done([r EXCEPT !.token =
                            create_access_token([sub |-> user.id, role |-> user.role],
                                                0, now)],
                        HTTP_200_OK, "")]
    /\ UNCHANGED <<users, nextUserId, products, now, initPc, attempt, slept>>

----------------------------------------------------------------------------
(* POST /products behind Depends(require_admin)                            *)
(*                                                                         *)
(* pc follows the per-request states TokenPresented -> TokenVerified ->    *)
(* IdentityResolved -> Authorized; trace lists the steps the task ran,     *)
(* verified_at the clock when verify_token ran, lookup what the query by   *)
(* id did ("row", "norow" or "raised").                                    *)

BeginCreateProduct(p, token, product) ==
    /\ reqs[p].op = "idle"
    /\ reqs' = [reqs EXCEPT ![p] =
                  [op |-> "create_product", pc |-> "TokenPresented",
                   status |-> 0, detail |-> "", token |-> token,
                   product |-> product, trace |-> <<>>, verified_at |-> 0,
                   token_data |-> NoTokenData, lookup |-> "", user |-> NoUser]]
    /\ UNCHANGED <<users, nextUserId, products, now, initPc, attempt, slept>>

\* get_current_user, line 96: token_data = verify_token(credentials)
VerifyTokenStepMut(p) ==
    /\ reqs[p].op = "create_product" /\ reqs[p].pc = "TokenPresented"
    /\ LET r == [reqs[p] EXCEPT !.trace = Append(@, "verify_token"),
                                !.verified_at = now]
           v == verify_token(r.token, now)
       IN reqs' = [reqs EXCEPT ![p] =
                     [r EXCEPT !.pc = "TokenVerified", !.token_data = v.data]]
    /\ UNCHANGED <<users, nextUserId, products, now, initPc, attempt, slept>>

VerifyTokenStep(p) ==
    /\ reqs[p].op = "create_product" /\ reqs[p].pc = "TokenPresented"
    /\ LET r == [reqs[p] EXCEPT !.trace = Append(@, "verify_token"),
                                !.verified_at = now]
           v == verify_token(r.token, now)
       IN reqs' = [reqs EXCEPT ![p] =
                     IF v.ok
                     THEN [r EXCEPT !.pc = "TokenVerified", !.token_data = v.data]
                     ELSE Done(r, v.status, v.detail)]
    /\ UNCHANGED <<users, nextUserId, products, now, initPc, attempt, slept>>

\* What leaves the try block of get_current_user (lines 100-115).  The
\* HTTPException "User not found" is raised inside the try, and
\* "except Exception" catches it like any store fault: HTTPException is a
\* subclass of Exception.
LookupOutcomeMut(fault, user) ==
    IF fault
    THEN [ok |-> FALSE, lookup |-> "raised",
          status |-> HTTP_500_INTERNAL_SERVER_ERROR, detail |-> "OperationalError"]
    ELSE IF user = NoUser
    THEN [ok |-> FALSE, lookup |-> "norow",
          status |-> HTTP_401_UNAUTHORIZED, detail |-> "User lookup failed"]
    ELSE [ok |-> TRUE, lookup |-> "row", status |-> 0, detail |-> ""]

LookupOutcome(fault, user) ==
    IF fault
    THEN [ok |-> FALSE, lookup |-> "raised",
          status |-> HTTP_401_UNAUTHORIZED, detail |-> "User lookup failed"]
    ELSE IF user = NoUser
    THEN [ok |-> FALSE, lookup |-> "norow",
          status |-> HTTP_401_UNAUTHORIZED, detail |-> "User lookup failed"]
    ELSE [ok |-> TRUE, lookup |-> "row", status |-> 0, detail |-> ""]

\* The user object get_current_user returns: the stored row.
ResolvedUserMut(row, token_data) == [row EXCEPT !.role = token_data.role]

ResolvedUser(row, token_data) == row

\* get_current_user, lines 97-115.
ResolveStep(p) ==
    /\ reqs[p].op = "create_product" /\ reqs[p].pc = "TokenVerified"
    /\ \E fault \in BOOLEAN :
         LET r == [reqs[p] EXCEPT !.trace = Append(@, "lookup")]
             user_id == r.token_data.user_id
             user == UserById(users, user_id)
             o == LookupOutcome(fault, user)
         IN reqs' = [reqs EXCEPT ![p] =
                       IF o.ok
                       THEN [r EXCEPT !.pc = "IdentityResolved",
                                      !.lookup = o.lookup,
                                      !.user = ResolvedUser(user, r.token_data)]
                       ELSE Done([r EXCEPT !.lookup = o.lookup],
                                 o.status, o.detail)]
    /\ UNCHANGED <<users, nextUserId, products, now, initPc, attempt, slept>>

\* require_admin: TRUE when it returns the user, FALSE when it raises.
require_adminMut(user) == TRUE

require_admin(user) == user.role = ADMIN

GateStep(p) ==
    /\ reqs[p].op = "create_product" /\ reqs[p].pc = "IdentityResolved"
    /\ LET r == [reqs[p] EXCEPT !.trace = Append(@, "require_admin")]
       IN reqs' = [reqs EXCEPT ![p] =
                     IF require_admin(r.user)
                     THEN [r EXCEPT !.pc = "Authorized"]
                     ELSE Done(r, HTTP_403_FORBIDDEN, "Admin access required")]
    /\ UNCHANGED <<users, nextUserId, products, now, initPc, attempt, slept>>

\* The body of create_product: one INSERT into products.
create_product(p) ==
    /\ reqs[p].op = "create_product" /\ reqs[p].pc = "Authorized"
    /\ Cardinality(products) < MaxProducts
    /\ \E fault \in BOOLEAN :
         IF fault
         THEN /\ reqs' = [reqs EXCEPT ![p] =
                    Done(reqs[p], HTTP_500_INTERNAL_SERVER_ERROR, "OperationalError")]
              /\ UNCHANGED products
         ELSE /\ products' = products \cup
                    {[id |-> Cardinality(products) + 1, name |-> reqs[p].product]}
              /\ reqs' = [reqs EXCEPT ![p] = Done(reqs[p], HTTP_200_OK, "")]
    /\ UNCHANGED <<users, nextUserId, now, initPc, attempt, slept>>

----------------------------------------------------------------------------
(* GET /products and GET /products/{product_id}: no dependency on auth *)

list_products(p) ==
    /\ reqs[p].op = "idle"
    /\ \E fault \in BOOLEAN :
         reqs' = [reqs EXCEPT ![p] =
                    Done([op |-> "list_products", pc |-> "done", status |-> 0,
                          detail |-> ""],
                         IF fault THEN HTTP_500_INTERNAL_SERVER_ERROR ELSE HTTP_200_OK,
                         IF fault THEN "OperationalError" ELSE "")]
    /\ UNCHANGED <<users, nextUserId, products, now, initPc, attempt, slept>>

get_product(p, product_id) ==
    /\ reqs[p].op = "idle"
    /\ LET found == {x \in products : x.id = product_id}
       IN reqs' = [reqs EXCEPT ![p] =
                    Done([op |-> "get_product", pc |-> "done", status |-> 0,
                          detail |-> ""],
                         IF found = {} THEN HTTP_500_INTERNAL_SERVER_ERROR ELSE HTTP_200_OK,
                         IF found = {} THEN "ValueError" ELSE "")]
    /\ UNCHANGED <<users, nextUserId, products, now, initPc, attempt, slept>>

----------------------------------------------------------------------------
(* Environment *)

\* The response is delivered and the task ends.
Respond(p) ==
    /\ reqs[p].pc = "done"
    /\ reqs' = [reqs EXCEPT ![p] = Idle]
    /\ UNCHANGED <<users, nextUserId, products, now, initPc, attempt, slept>>

\* datetime.utcnow() moves on.
Tick ==
    /\ \E t \in Instants : t > now /\ now' = t
    /\ UNCHANGED <<users, nextUserId, products, reqs, initPc, attempt, slept>>

\* Changes made to the users table from outside this service (no endpoint
\* of the service writes a role or removes a row).
SetRole(id, role) ==
    /\ \E u \in users : /\ u.id = id
                        /\ u.role # role
                        /\ users' = (users \ {u}) \cup {[u EXCEPT !.role = role]}
    /\ UNCHANGED <<nextUserId, products, now, reqs, initPc, attempt, slept>>

ProductNames == {"widget"}

Registration(p) ==
    \/ \E user \in UserCreateInputs : BeginRegister(p, user)
    \/ RegisterCheck(p)
    \/ RegisterCommit(p)

Login(p) ==
    \E user_login \in UserLoginInputs : login(p, user_login)

AdminWrite(p) ==
    \/ \E token \in HeldTokens \cup CraftedTokens, product \in ProductNames :
          BeginCreateProduct(p, token, product)
    \/ VerifyTokenStep(p)
    \/ ResolveStep(p)
    \/ GateStep(p)
    \/ create_product(p)

PublicRead(p) ==
    \/ list_products(p)
    \/ \E product_id \in 1..MaxProducts : get_product(p, product_id)

\* The request handlers and the clock.  init_db shares no state with them
\* (it touches the table metadata and its own loop counter), so it is
\* composed with requests in SpecStartup below.
Next ==
    \/ \E p \in Procs : Registration(p)
    \/ \E p \in Procs : Login(p)
    \/ \E p \in Procs : AdminWrite(p)
    \/ \E p \in Procs : PublicRead(p)
    \/ \E p \in Procs : Respond(p)
    \/ Tick

Spec == Init /\ [][Next]_vars

\* The authenticated path together with an operator who edits roles in the
\* users table while tokens are outstanding.
NextOps ==
    \/ \E p \in Procs : Registration(p)
    \/ \E p \in Procs : Login(p)
    \/ \E p \in Procs : AdminWrite(p)
    \/ \E p \in Procs : Respond(p)
    \/ \E id \in 1..MaxUserId, role \in {ADMIN, USER} : SetRole(id, role)

SpecOps == Init /\ [][NextOps]_vars

\* Process startup: lifespan creates the init_db task and yields at once, so
\* requests are served while init_db polls.  init_db is an asyncio task of a
\* running event loop: it is scheduled until it returns.
NextStartup ==
    \/ InitDbAttempt
    \/ InitDbSleep
    \/ \E p \in Procs : Login(p)
    \/ \E p \in Procs : PublicRead(p)
    \/ \E p \in Procs : Respond(p)

SpecStartup ==
    Init /\ [][NextStartup]_vars /\ WF_vars(InitDbAttempt) /\ WF_vars(InitDbSleep)

----------------------------------------------------------------------------
(* Vocabulary of the properties *)

CreateTasks == {p \in Procs : reqs[p].op = "create_product"}

RegisterTasks == {p \in Procs : reqs[p].op = "register"}

AuthOrder == <<"verify_token", "lookup", "require_admin">>

IsPrefix(s, t) == Len(s) <= Len(t) /\ \A i \in 1..Len(s) : s[i] = t[i]

Rank(pc) ==
    CASE pc = "TokenPresented" -> 1
      [] pc = "TokenVerified" -> 2
      [] pc = "IdentityResolved" -> 3
      [] pc = "Authorized" -> 4
      [] pc = "done" -> 5

AuthStatuses == {HTTP_401_UNAUTHORIZED, HTTP_403_FORBIDDEN}

\* The request was turned away by the dependency chain.
Rejected(r) == r.pc = "done" /\ r.status \in AuthStatuses

\* The request got through require_admin.
PassedGate(r) ==
    \/ r.pc = "Authorized"
    \/ r.pc = "done" /\ Len(r.trace) = 3 /\ r.status # HTTP_403_FORBIDDEN

NoAdminStored == \A u \in users : u.role # ADMIN

----------------------------------------------------------------------------
\* C1: a product row is inserted only by a POST /products task that is in
\* the Authorized state (token verified, subject resolved to a stored user,
\* that user's role admin); a task that ends rejected leaves the products
\* unchanged; the two reads take no token and never end 401 or 403.
C1_AdminGatedWrite ==
    [][ /\ products' # products =>
             \E p \in CreateTasks :
                LET r == reqs[p]
                IN /\ r.pc = "Authorized"
                   /\ r.trace = AuthOrder
                   /\ verify_token(r.token, r.verified_at).ok
                   /\ r.lookup = "row"
                   /\ r.user \in users
                   /\ r.user.id = r.token_data.user_id
                   /\ r.user.role = ADMIN
                   /\ reqs'[p].pc = "done"
                   /\ reqs'[p].status = HTTP_200_OK
        /\ \A p \in Procs :
             reqs'[p] # reqs[p] /\ Rejected(reqs'[p]) => products' = products
        /\ \A p \in Procs :
             reqs'[p] # reqs[p] /\ reqs'[p].op \in {"list_products", "get_product"}
               => reqs[p] = Idle /\ reqs'[p].status \notin AuthStatuses
      ]_vars

C1_Witness ==
    /\ products # {}
    /\ \E p \in CreateTasks : reqs[p].pc = "done" /\ reqs[p].status = HTTP_200_OK
    /\ \E p \in Procs : Rejected(reqs[p])

\* The steps a task has run, where it stands and how it ended.
C2_StepsInv ==
    \A p \in CreateTasks :
       LET r == reqs[p]
       IN /\ IsPrefix(r.trace, AuthOrder)
          /\ Len(r.trace) >= 2 => verify_token(r.token, r.verified_at).ok
          /\ Len(r.trace) = 3 => r.lookup = "row"
          /\ r.pc = "TokenPresented" => r.trace = <<>>
          /\ r.pc = "TokenVerified" => Len(r.trace) = 1
          /\ r.pc = "IdentityResolved" => Len(r.trace) = 2
          /\ r.pc = "Authorized" => Len(r.trace) = 3
          /\ r.pc = "done" =>
               \/ /\ Len(r.trace) = 1
                  /\ r.detail \in {"Invalid token", "Invalid token subject"}
               \/ /\ Len(r.trace) = 2
                  /\ r.detail \in {"User not found", "User lookup failed"}
               \/ /\ Len(r.trace) = 3
                  /\ r.detail = "Admin access required"
                  /\ r.user.role # ADMIN
               \/ /\ Len(r.trace) = 3
                  /\ r.user.role = ADMIN
                  /\ r.status \notin AuthStatuses

\* One step of a task: one state forward or to its end; an ended task only
\* leaves.
C2_StepsAct ==
    \A p \in Procs :
       reqs[p].op = "create_product" /\ reqs'[p] # reqs[p] =>
          \/ reqs[p].pc = "done" /\ reqs'[p] = Idle
          \/ /\ reqs[p].pc # "done"
             /\ reqs'[p].op = "create_product"
             /\ reqs'[p].token = reqs[p].token
             /\ Len(reqs'[p].trace) <= Len(reqs[p].trace) + 1
             /\ \/ Rank(reqs'[p].pc) = Rank(reqs[p].pc) + 1
                \/ reqs'[p].pc = "done"

\* C2: a POST /products task runs verify_token, the lookup by id and
\* require_admin in that order, each at most once and only after the step
\* before it succeeded; it never moves backwards and it ends in exactly one
\* terminal outcome.
C2_OrderedShortCircuit == []C2_StepsInv /\ [][C2_StepsAct]_vars

C2_Witness ==
    \E p, q \in CreateTasks :
       /\ reqs[p].pc = "done" /\ reqs[p].trace = <<"verify_token">>
       /\ reqs[q].pc = "done" /\ reqs[q].trace = <<"verify_token", "lookup">>

\* C3 (as stated): a lookup that finds no row ends "User not found", and
\* "User lookup failed" is reported only when the lookup itself raised.
C3_NotFoundDistinct ==
    \A p \in CreateTasks :
       LET r == reqs[p]
       IN r.pc = "done" /\ Len(r.trace) = 2 =>
            /\ r.lookup = "norow" => r.detail = "User not found"
            /\ r.detail = "User lookup failed" => r.lookup = "raised"

\* C4 (as stated): a token signed by this service verifies at every instant
\* before its exp and is rejected "Invalid token" at every instant from its
\* exp on, the instant exp itself included.
C4_TokenLifetime ==
    \A p \in CreateTasks :
       LET r == reqs[p]
       IN /\ Len(r.trace) >= 1
          /\ r.token.key = SECRET_KEY
          /\ "sub" \in DOMAIN r.token.payload
          /\ IsNumeral(r.token.payload.sub)
          => /\ r.verified_at < r.token.payload.exp =>
                  ~(r.pc = "done" /\ Len(r.trace) = 1)
             /\ r.verified_at >= r.token.payload.exp =>
                  /\ r.pc = "done"
                  /\ r.trace = <<"verify_token">>
                  /\ r.status = HTTP_401_UNAUTHORIZED
                  /\ r.detail = "Invalid token"

\* C5 (as stated): a request bearing a token whose role claim is USER
\* resolves with role USER, whatever the stored role has become since.
C5_StaleRoleResolved ==
    \A p \in CreateTasks :
       LET r == reqs[p]
       IN r.lookup = "row" /\ r.token.payload.role = USER =>
            /\ r.user.role = USER
            /\ ~PassedGate(r)

\* The token data carries the role claim; the gate follows the resolved row.
C5_ClaimInv ==
    \A p \in CreateTasks :
       LET r == reqs[p]
       IN /\ Len(r.trace) >= 2 => r.token_data.role = r.token.payload.role
          /\ PassedGate(r) => r.user.role = ADMIN
          /\ r.pc = "done" /\ r.status = HTTP_403_FORBIDDEN => r.user.role # ADMIN

\* The lookup hands the task the row the store holds for the subject.
C5_ResolveAct ==
    \A p \in Procs :
       reqs[p].op = "create_product" /\ reqs[p].pc = "TokenVerified"
       /\ reqs'[p].pc = "IdentityResolved"
       => /\ reqs'[p].user \in users
          /\ reqs'[p].user.id = reqs[p].token_data.user_id

\* C5 (amended): verify_token hands on the role claim of the token as it
\* was issued, but the request resolves to the stored row and require_admin
\* decides on the stored role: the role claim plays no part in the decision.
C5_StoredRoleDecides == []C5_ClaimInv /\ [][C5_ResolveAct]_vars

C5_Witness ==
    \E p \in CreateTasks :
       /\ reqs[p].token.payload.role = USER
       /\ reqs[p].user.role = ADMIN
       /\ reqs[p].pc = "done"
       /\ reqs[p].status = HTTP_200_OK

\* C6 (as stated): a registration that finds the username taken is answered
\* with a client error (4xx).
C6_DuplicateIsClientError ==
    \A p \in RegisterTasks :
       reqs[p].pc = "done" /\ reqs[p].existing => reqs[p].status \in 400..499

\* C7: in every reachable state, whatever the interleaving of the register
\* tasks, no two user rows carry the same username.
C7_UsernameUnique ==
    \A u, v \in users : u.username = v.username => u = v

\* Both tasks passed the existence check, one committed, the store refused
\* the other.
C7_Witness ==
    \E p \in RegisterTasks :
       /\ reqs[p].pc = "done"
       /\ ~reqs[p].existing
       /\ reqs[p].detail = "IntegrityError"
       /\ \E u \in users : /\ u.username = reqs[p].user.username
                           /\ u.email # reqs[p].user.email

\* C8: a POST /products task that fails in verify_token or in the lookup
\* ends 401, one that fails in require_admin ends 403, and the dependency
\* chain produces no other status.
C8_AuthStatus ==
    \A p \in CreateTasks :
       LET r == reqs[p]
       IN r.pc = "done" =>
            /\ Len(r.trace) = 1 =>
                 /\ r.status = HTTP_401_UNAUTHORIZED
                 /\ r.detail \in {"Invalid token", "Invalid token subject"}
            /\ Len(r.trace) = 2 =>
                 /\ r.status = HTTP_401_UNAUTHORIZED
                 /\ r.detail \in {"User not found", "User lookup failed"}
            /\ Len(r.trace) = 3 /\ r.user.role # ADMIN =>
                 /\ r.status = HTTP_403_FORBIDDEN
                 /\ r.detail = "Admin access required"
            /\ r.detail = "Admin access required" => r.status = HTTP_403_FORBIDDEN

C8_Witness ==
    \E p, q \in CreateTasks :
       /\ reqs[p].pc = "done" /\ reqs[p].lookup = "raised"
       /\ reqs[p].status = HTTP_401_UNAUTHORIZED
       /\ reqs[q].pc = "done" /\ reqs[q].status = HTTP_403_FORBIDDEN

InitDbReturned == initPc \in {"connected", "unreachable"}

\* attempt counts the failed tries; an idle task can always take a request.
C9_PollInv ==
    /\ attempt \in 0..retries
    /\ slept = SleepSeconds * attempt
    /\ initPc \in {"try", "sleep", "connected"} => attempt < retries
    /\ initPc = "unreachable" => attempt = retries
    /\ \A p \in Procs : reqs[p] = Idle => ENABLED list_products(p)

\* Once returned, init_db does nothing more; a try is counted by its sleep.
C9_PollAct ==
    /\ InitDbReturned => UNCHANGED <<initPc, attempt, slept>>
    /\ attempt' # attempt => attempt' = attempt + 1 /\ initPc = "sleep"

\* C9: init_db tries the store at most retries (5) times, stops at the first
\* success, sleeps 3 s after every failed try, and always returns; requests
\* are accepted whatever init_db has achieved.
C9_BoundedPoll ==
    /\ []C9_PollInv
    /\ [][C9_PollAct]_vars
    /\ <>InitDbReturned

C9_Witness ==
    /\ initPc = "unreachable"
    /\ slept = SleepSeconds * retries
    /\ \E p \in Procs : reqs[p].pc = "done" /\ reqs[p].status = HTTP_200_OK

\* Rows are only added, with fresh ids and role USER.
C10_RolesAct ==
    /\ users \subseteq users'
    /\ \A u \in users' \ users :
          /\ u.role = USER
          /\ \A v \in users : v.id # u.id

\* Without a stored admin nothing passes the gate.
C10_NoAdminInv ==
    NoAdminStored =>
       /\ products = {}
       /\ \A p \in CreateTasks : ~PassedGate(reqs[p])

\* C10: register only ever adds rows of role USER and no handler alters or
\* removes a stored row; so while the store holds no admin, no POST /products
\* task gets through require_admin and the products stay empty.
C10_NoSelfPromotion == [][C10_RolesAct]_vars /\ []C10_NoAdminInv

C10_Witness ==
    /\ NoAdminStored
    /\ \E p \in CreateTasks :
          /\ reqs[p].pc = "done"
          /\ reqs[p].status = HTTP_403_FORBIDDEN
          /\ reqs[p].token \in HeldTokens

====
